---- MODULE Spec2Model ----
(***************************************************************************)
(* The query-mediation pipeline of the two query tools of                  *)
(* src/src/tools/queryDatasource/queryDatasource.ts:                       *)
(*   - the structured-query tool   (getQueryDatasourceTool, 'Tableau-Answer')*)
(*   - the natural-language tool   (getSimpleQueryDatasourceTool)          *)
(* Each invocation of a tool is a sequence of awaited remote calls; one    *)
(* action of the model is the code from one await to the next.  The remote *)
(* collaborators (listing, access checker, metadata, validator, query) are *)
(* the environment: their answers are chosen from small sets.              *)
(*                                                                         *)
(* Strings the code inspects (names, messages) are sequences of one-letter *)
(* or one-token strings; an optional JavaScript value is a sequence of     *)
(* length at most one: <<>> is undefined, <<v>> is v.                      *)
(***************************************************************************)
EXTENDS Integers, Sequences, FiniteSets, TLC

VARIABLES
  config,         \* getConfig(): the operator's configuration
  listing,        \* the remote site's datasource listing, page by page
  tool,           \* tool[i]: which tool invocation i is a call of
  args,           \* args[i]: the arguments of invocation i
  pc,             \* pc[i]: the await invocation i is suspended at
  pageNumber,     \* pageNumber[i]: the resolver loop's counter
  resolved,       \* resolved[i]: the datasource the resolver matched
  datasourceLuid, \* datasourceLuid[i]: the identifier the pipeline works on
  queryRequest,   \* queryRequest[i]: the request built for queryDatasource
  calls,          \* calls[i]: the remote calls made so far, with their answers
  outcome,        \* outcome[i]: the Result the callback returned
  stage           \* stage[i]: the pipeline stage that returned the outcome

vars == <<config, listing, tool, args, pc, pageNumber, resolved,
          datasourceLuid, queryRequest, calls, outcome, stage>>

-----------------------------------------------------------------------------
(* Bounds of the model *)

\* invocations the state has room for
NumInvocations == 2
\* leading full pages, holding no candidate, of a generated listing
MaxLead == 5
\* candidate datasources on a generated listing page
MaxItems == 2
\* largest explicit row limit a caller passes
MaxLimit == 1
\* largest limit of the list tool, asked for or configured
MaxListLimit == 3
\* longest list of datasources the list tool's paginator answers
MaxListed == 3

Invocations == 1..NumInvocations

-----------------------------------------------------------------------------
(* Program constants *)

\* const pageSize = 100
pageSize == 100
\* for (let pageNumber = 1; pageNumber <= 5; pageNumber++)
MaxPageNumber == 5
\* const rowLimit = limit ?? 20
DefaultRowLimit == 20

-----------------------------------------------------------------------------
(* JavaScript values *)

None == <<>>
Some(v) == <<v>>

\* a ?? d, for an optional a and a plain default d
Nullish(a, d) == IF a = None THEN d ELSE a[1]

\* !s for an optional string s: undefined and '' are falsy
Falsy(s) == s = None \/ s[1] = ""

\* ts-results-es
Ok(v) == [isErr |-> FALSE, value |-> v]
Err(e) == [isErr |-> TRUE, error |-> e]

\* String.prototype.toLowerCase, over the letters the model uses
LowerChar(c) ==
  CASE c = "S" -> "s"
    [] c = "A" -> "a"
    [] c = "E" -> "e"
    [] OTHER -> c

toLowerCase(s) == [k \in 1..Len(s) |-> LowerChar(s[k])]

RECURSIVE trimStart(_)
trimStart(s) == IF s # <<>> /\ Head(s) = " " THEN trimStart(Tail(s)) ELSE s

RECURSIVE trimEnd(_)
trimEnd(s) ==
  IF s # <<>> /\ s[Len(s)] = " " THEN trimEnd(SubSeq(s, 1, Len(s) - 1)) ELSE s

\* String.prototype.trim
trim(s) == trimEnd(trimStart(s))

\* String.prototype.includes
includes(s, t) == \E k \in 0..(Len(s) - Len(t)) : SubSeq(s, k + 1, k + Len(t)) = t

\* Array.prototype.find, given the indices of the elements that satisfy the
\* predicate: the first of those elements, or undefined
find(list, satisfying) ==
  IF satisfying = {} THEN None
  ELSE Some(list[CHOOSE k \in satisfying : \A j \in satisfying : k <= j])

\* Array.prototype.join, for an array of strings
RECURSIVE join(_, _)
join(parts, sep) ==
  IF parts = <<>> THEN <<>>
  ELSE IF Len(parts) = 1 THEN parts[1]
  ELSE parts[1] \o <<sep>> \o join(Tail(parts), sep)

-----------------------------------------------------------------------------
(* Dataset resolution: pure parts *)

\* the first datasource whose name holds the term wins, exact or not
bestDatasourceMatchFirstContains(list, targetLower) ==
  LET contains(d) == includes(toLowerCase(Nullish(d.name, <<>>)), targetLower)
  IN find(list, {k \in 1..Len(list) : contains(list[k])})

\* function bestDatasourceMatch(list, targetLower)
bestDatasourceMatch(list, targetLower) ==
  LET isExact(d) == toLowerCase(Nullish(d.name, <<>>)) = targetLower
      contains(d) == includes(toLowerCase(Nullish(d.name, <<>>)), targetLower)
      exact == find(list, {k \in 1..Len(list) : isExact(list[k])})
  IN IF exact # None THEN exact
     ELSE find(list, {k \in 1..Len(list) : contains(list[k])})

\* const target = datasourceName.trim().toLowerCase()
Target(datasourceName) == toLowerCase(trim(datasourceName))

\* the message echoes the normalized search term instead of the name supplied
NotMatchedMessageNormalized(datasourceName) ==
  <<"No datasource matched \"">> \o toLowerCase(trim(datasourceName)) \o <<"\".">>

\* `No datasource matched "${datasourceName}".`
NotMatchedMessage(datasourceName) ==
  <<"No datasource matched \"">> \o datasourceName \o <<"\".">>

\* `Datasource "${datasourceName}" was found but had no LUID/ID in the response.`
NoLuidMessage(datasourceName) ==
  <<"Datasource \"">> \o datasourceName
    \o <<"\" was found but had no LUID/ID in the response.">>

-----------------------------------------------------------------------------
(* The remote listing *)

\* datasources a listing page may hold: name, luid and id are each optional
dsSales == [name |-> Some(<<"S", "a">>), luid |-> None, id |-> Some("id-sales")]
dsSalesEmea ==
  [name |-> Some(<<"S", "a", " ", "E">>), luid |-> Some("luid-emea"),
   id |-> Some("id-emea")]
dsLowerNoId == [name |-> Some(<<"s", "a">>), luid |-> None, id |-> None]
dsUnnamed == [name |-> None, luid |-> None, id |-> Some("id-unnamed")]
dsEmptyLuid == [name |-> Some(<<"E">>), luid |-> Some(""), id |-> Some("id-e")]
\* a datasource that fills a page up; its name shares no letter with the
\* search terms of the model
dsFiller == [name |-> Some(<<"f">>), luid |-> None, id |-> Some("id-filler")]

CandidatePool == {dsSales, dsSalesEmea, dsLowerNoId, dsUnnamed, dsEmptyLuid}
SmallPool == {dsSales, dsSalesEmea}

\* A page is kept as its candidates, in listing order, and the number of filler
\* datasources after them; absent is a response with no `datasources` at all.
AbsentPage == [absent |-> TRUE, items |-> <<>>, pad |-> 0]
FillerPage == [absent |-> FALSE, items |-> <<>>, pad |-> pageSize]

PageList(page) == page.items \o [k \in 1..page.pad |-> dsFiller]

SeqsUpTo(S, n) == UNION {[1..k -> S] : k \in 0..n}

\* pages of at most n candidates: short, one short of full, or full
PagesOver(S, n) ==
  {[absent |-> FALSE, items |-> s,
    pad |-> CASE fill = "short" -> 0
              [] fill = "almost" -> pageSize - Len(s) - 1
              [] fill = "full" -> pageSize - Len(s)]
     : s \in SeqsUpTo(S, n), fill \in {"short", "almost", "full"}}
  \cup {AbsentPage}

\* short last pages of at most one candidate
LastPagesOver(S) ==
  {[absent |-> FALSE, items |-> s, pad |-> 0] : s \in SeqsUpTo(S, 1)}

\* listings: some full pages of filler, then two pages drawn from the given sets
ListingsOver(maxLead, firsts, seconds) ==
  {[k \in 1..n |-> FillerPage] \o <<a, b>> :
     n \in 0..maxLead, a \in firsts, b \in seconds}

\* restApi.datasourcesMethods.listDatasources({ siteId, filter: '', pageSize, pageNumber })
listDatasources(n) ==
  IF n > Len(listing) THEN [datasources |-> Some(<<>>)]
  ELSE IF listing[n].absent THEN [datasources |-> None]
  ELSE [datasources |-> Some(PageList(listing[n]))]

-----------------------------------------------------------------------------
(* The other collaborators' answers *)

\* values a remote call fails with: a ZodiosError raised locally, the string
\* 'feature-disabled', or the remote service's error payload (TableauError)
ZodiosErrorValue == [jsType |-> "ZodiosError", message |-> <<"invalid response">>]
FeatureDisabledValue == [jsType |-> "string", value |-> "feature-disabled"]
TableauErrors ==
  {[jsType |-> "object", errorCode |-> "400803", message |-> <<"bad request">>],
   [jsType |-> "object", errorCode |-> "401001", message |-> <<"login failed">>]}
RemoteFailures == {ZodiosErrorValue, FeatureDisabledValue} \cup TableauErrors

\* result.error instanceof ZodiosError
instanceofZodiosError(e) == e.jsType = "ZodiosError"
\* result.error === 'feature-disabled'
isFeatureDisabled(e) == e.jsType = "string" /\ e.value = "feature-disabled"

\* resourceAccessChecker.isDatasourceAllowed(...): { allowed, message }
IsDatasourceAllowedResults ==
  {[allowed |-> TRUE],
   [allowed |-> FALSE, message |-> <<"datasource is outside the bounded context">>]}

\* restApi.vizqlDataServiceMethods.queryDatasource(queryRequest)
QueryOutput == [data |-> <<"row">>]
QueryDatasourceResults == {Ok(QueryOutput)} \cup {Err(e) : e \in RemoteFailures}

\* restApi.vizqlDataServiceMethods.readMetadata({ datasource }): the shapes of
\* metadata extractFirstFieldCaption looks for
NoField == [fieldCaption |-> None, name |-> None, caption |-> None]
MetadataValues ==
  {[fields |-> Some([isArray |-> TRUE,
                     elems |-> <<[NoField EXCEPT !.fieldCaption = Some("Region")],
                                 [NoField EXCEPT !.fieldCaption = Some("Sales")]>>]),
    result |-> None, data |-> None, metadata |-> None],
   [fields |-> None, result |-> None,
    data |-> Some([fields |-> None]), metadata |-> None],
   [fields |-> Some([isArray |-> TRUE, elems |-> <<>>]),
    result |-> None, data |-> None, metadata |-> None],
   [fields |-> None,
    result |-> Some([fields |-> Some([isArray |-> TRUE,
                       elems |-> <<[NoField EXCEPT !.name = Some("Profit")]>>])]),
    data |-> None, metadata |-> None]}
ReadMetadataResults ==
  {Ok(md) : md \in MetadataValues} \cup {Err(e) : e \in RemoteFailures}

\* getDatasourceCredentials(datasourceLuid): the connections configured for it
getDatasourceCredentials(luid) ==
  IF luid = "luid-emea" THEN Some(<<"connection-credentials">>) ELSE None

\* query.filters, which a query may lack
QueryFilters(query) == IF "filters" \in DOMAIN query THEN query.filters ELSE <<>>

\* the filters whose values validateFilterValues looks up (SET and MATCH)
ValidatedFilters(query) ==
  LET validated(f) == f.filterType \in {"SET", "MATCH"}
  IN SelectSeq(QueryFilters(query), validated)

\* the subsequences of s
SubSequences(s) ==
  {LET chosen(k) == k \in I
       idx == SelectSeq([k \in 1..Len(s) |-> k], chosen)
   IN [j \in 1..Len(idx) |-> s[idx[j]]] : I \in SUBSET (1..Len(s))}

FindingFor(f) ==
  [field |-> f.fieldCaption,
   message |-> <<"Filter validation failed for field", f.fieldCaption>>]

\* validateFilterValues(server, query, methods, datasource): Ok, or Err of the
\* findings, one per validated filter whose value was not found, in filter order
validateFilterValuesResults(query) ==
  {IF fs = <<>> THEN Ok([validated |-> TRUE])
   ELSE Err([k \in 1..Len(fs) |-> FindingFor(fs[k])])
     : fs \in SubSequences(ValidatedFilters(query))}

-----------------------------------------------------------------------------
(* Arguments of the tools *)

SetFilter(caption, value) ==
  [fieldCaption |-> caption, filterType |-> "SET", values |-> <<value>>]
MatchFilter(caption, value) ==
  [fieldCaption |-> caption, filterType |-> "MATCH", values |-> <<value>>]
RangeFilter(caption) ==
  [fieldCaption |-> caption, filterType |-> "QUANTITATIVE_NUMERICAL",
   values |-> <<>>]

\* query: Query
StructuredQueries ==
  {[fields |-> <<[fieldCaption |-> "Sales", function |-> "SUM"]>>],
   [fields |-> <<[fieldCaption |-> "Sales", function |-> "SUM"]>>,
    filters |-> <<RangeFilter("Sales"), SetFilter("Region", "East")>>,
    limit |-> 10],
   [fields |-> <<[fieldCaption |-> "Region"], [fieldCaption |-> "Sales"]>>,
    filters |-> <<SetFilter("Region", "East"), MatchFilter("Category", "Tech")>>]}

\* paramsSchema: { datasourceLuid: z.string().nonempty(), query: Query }
QueryArgs ==
  [datasourceLuid : {"luid-emea", "id-sales"}, query : StructuredQueries]

\* datasourceName: z.string().min(1)
DatasourceNames ==
  {<<" ", "S", "A">>, <<"e">>, <<"E", "E", " ">>, <<" ">>}

\* limit: z.number().int().min(1).max(200).optional()
Limits == {None} \cup {Some(n) : n \in 1..MaxLimit}

\* simpleParamsSchema: { datasourceName, question, limit }
SimpleArgs ==
  [datasourceName : DatasourceNames,
   question : {"how many orders?", "total sales by region"},
   limit : Limits]

ToolCalls ==
  {[tool |-> "query", args |-> a] : a \in QueryArgs}
    \cup {[tool |-> "simple", args |-> a] : a \in SimpleArgs}

\* an invocation slot no call has arrived in
NoCall == [tool |-> "none", args |-> [none |-> TRUE]]

-----------------------------------------------------------------------------
(* Pure parts of the natural-language tool *)

\* o?.fields
OptionalFields(o) == IF o = None THEN None ELSE o[1].fields

\* the metadata is not looked at
extractNoFieldCaption(md) == "Number of Records"

\* function extractFirstFieldCaption(readMetadataValue)
extractFirstFieldCaption(md) ==
  LET candidates ==
        IF md.fields # None THEN md.fields[1]
        ELSE IF OptionalFields(md.result) # None THEN OptionalFields(md.result)[1]
        ELSE IF OptionalFields(md.data) # None THEN OptionalFields(md.data)[1]
        ELSE IF OptionalFields(md.metadata) # None
          THEN OptionalFields(md.metadata)[1]
        ELSE [isArray |-> TRUE, elems |-> <<>>]
      first ==
        IF candidates.isArray /\ candidates.elems # <<>>
          THEN Some(candidates.elems[1]) ELSE None
      prop(name) == IF first = None THEN None ELSE first[1][name]
  IN IF prop("fieldCaption") # None THEN prop("fieldCaption")[1]
     ELSE IF prop("name") # None THEN prop("name")[1]
     ELSE IF prop("caption") # None THEN prop("caption")[1]
     ELSE "Number of Records"

\* function buildQueryFromQuestion({ question, firstFieldCaption, rowLimit })
buildQueryFromQuestion(question, firstFieldCaption, rowLimit) ==
  [fields |-> <<[fieldCaption |-> firstFieldCaption, function |-> "COUNT",
                 fieldAlias |-> "Total Records"]>>,
   limit |-> rowLimit]

\* const datasource = { datasourceLuid }; if (credentials) datasource.connections = credentials
DatasourceOf(luid) ==
  IF getDatasourceCredentials(luid) # None
    THEN [datasourceLuid |-> luid, connections |-> getDatasourceCredentials(luid)[1]]
    ELSE [datasourceLuid |-> luid]

\* const queryRequest = { datasource, query, options }
QueryRequestOf(luid, query, debug) ==
  [datasource |-> DatasourceOf(luid), query |-> query,
   options |-> [returnFormat |-> "OBJECTS", debug |-> debug, disaggregate |-> FALSE]]

-----------------------------------------------------------------------------
(* Mapping failures to the tools' errors *)

\* only the first finding is reported
FindingsMessageFirstOnly(errors) == errors[1].message

\* errors.map((error) => error.message).join(', ')
FindingsMessage(errors) == join([k \in 1..Len(errors) |-> errors[k].message], ", ")

\* the 'feature-disabled' string is not told apart from an error payload
QueryFailureUndistinguished(error) ==
  IF instanceofZodiosError(error) THEN error
  ELSE [type |-> "tableau-error", error |-> error]

\* the structured tool's Err for a failure of queryDatasource (lines 129-138)
QueryFailure(error) ==
  IF instanceofZodiosError(error) THEN error
  ELSE IF isFeatureDisabled(error) THEN [type |-> "feature-disabled"]
  ELSE [type |-> "tableau-error", error |-> error]

\* the natural-language tool's Err for a failure of queryDatasource (lines 377-389)
SimpleQueryFailure(error) ==
  IF instanceofZodiosError(error) THEN [type |-> "tableau-error", error |-> error]
  ELSE IF isFeatureDisabled(error) THEN [type |-> "feature-disabled"]
  ELSE [type |-> "tableau-error", error |-> error]

\* the natural-language tool's Err for a failure of readMetadata (lines 307-309)
SimpleMetadataFailure(error) == [type |-> "feature-disabled"]

\* the natural-language tool's Err for validation findings (lines 362-371)
SimpleValidationFailure(errors) ==
  [type |-> "tableau-error",
   error |-> [errorCode |-> "validation", message |-> FindingsMessage(errors)]]

\* findings are reported under the tableau-error tag
ValidationFailureAsTableauError(errors) ==
  [type |-> "tableau-error",
   error |-> [errorCode |-> "validation", message |-> FindingsMessage(errors)]]

\* the structured tool's Err for validation findings (lines 117-124)
ValidationFailure(errors) ==
  [type |-> "filter-validation", message |-> FindingsMessage(errors)]

\* the operator's opt-out is not looked at
ValidationAlwaysEnabled == TRUE

\* whether filter validation runs: !config.disableQueryDatasourceFilterValidation
ValidationEnabled == ~config.disableQueryDatasourceFilterValidation

-----------------------------------------------------------------------------
(* Order of the awaits in each callback *)

\* the structured tool's callback, lines 70-143
QueryStages == <<"access", "validate", "query">>

\* the metadata is read before the access check
SimpleStagesMetadataFirst == <<"resolve", "metadata", "access", "validate", "query">>

\* the natural-language tool's callback, lines 231-395
SimpleStages == <<"resolve", "access", "metadata", "validate", "query">>

\* the await that follows `s`: the validator is awaited only when validation is
\* enabled (lines 108 and 354)
NextStage(stages, s) ==
  LET k == CHOOSE n \in 1..Len(stages) : stages[n] = s
  IN IF stages[k + 1] = "validate" /\ ~ValidationEnabled
       THEN stages[k + 2] ELSE stages[k + 1]

\* the access check's answer is not looked at
NotAllowedIgnored(isDatasourceAllowedResult) == FALSE

\* if (!isDatasourceAllowedResult.allowed), structured tool
NotAllowed(isDatasourceAllowedResult) == ~isDatasourceAllowedResult.allowed

\* if (!isDatasourceAllowedResult.allowed), natural-language tool
SimpleNotAllowed(isDatasourceAllowedResult) == ~isDatasourceAllowedResult.allowed

-----------------------------------------------------------------------------
(* Steps of an invocation *)

\* the callback never resumes to return its result
ReturnNever(i, result, at) ==
  /\ UNCHANGED <<outcome, stage>>
  /\ pc' = [pc EXCEPT ![i] = "suspended"]

\* the result is produced but the callback stays at the await it failed at
ReturnAndStay(i, result, at) ==
  /\ outcome' = [outcome EXCEPT ![i] = Some(result)]
  /\ stage' = [stage EXCEPT ![i] = at]
  /\ pc' = pc

\* the callback returns `result`; `at` is the stage it returns from
Return(i, result, at) ==
  /\ outcome' = [outcome EXCEPT ![i] = Some(result)]
  /\ stage' = [stage EXCEPT ![i] = at]
  /\ pc' = [pc EXCEPT ![i] = "done"]

Called(i, call) == calls' = [calls EXCEPT ![i] = Append(@, call)]

\* the loop has no bound
LoopContinuesUnbounded(n) == TRUE

\* the loop's condition: pageNumber <= 5
LoopContinues(n) == n <= MaxPageNumber

\* only a response without a list ends the scan
EndOfListingOnlyWhenAbsent(datasources) == datasources = None

\* if (!datasources || datasources.length < pageSize) break
EndOfListing(datasources) ==
  datasources = None \/ Len(datasources[1]) < pageSize

\* the resolved identifier is one variable that the invocations share
ResolvedForEveryInvocation(i, luid) ==
  datasourceLuid' = [j \in Invocations |-> luid]

\* const datasourceLuid = match.luid ?? match.id: a constant of the callback's
\* own scope
Resolved(i, luid) == datasourceLuid' = [datasourceLuid EXCEPT ![i] = luid]

\* Structured tool, lines 71-99: the access check, then the request is built
QueryIsDatasourceAllowed(i) ==
  /\ tool[i] = "query" /\ pc[i] = "access"
  /\ \E isDatasourceAllowedResult \in IsDatasourceAllowedResults :
       /\ Called(i, [op |-> "isDatasourceAllowed",
                     datasourceLuid |-> args[i].datasourceLuid,
                     response |-> isDatasourceAllowedResult])
       /\ IF NotAllowed(isDatasourceAllowedResult)
            THEN /\ Return(i, Err([type |-> "datasource-not-allowed",
                                   message |-> isDatasourceAllowedResult.message]),
                           "ResolveAccess")
                 /\ UNCHANGED queryRequest
            ELSE /\ queryRequest' =
                      [queryRequest EXCEPT ![i] =
                         Some(QueryRequestOf(args[i].datasourceLuid,
                                             args[i].query, TRUE))]
                 /\ pc' = [pc EXCEPT ![i] = NextStage(QueryStages, "access")]
                 /\ UNCHANGED <<outcome, stage>>
  /\ UNCHANGED <<config, listing, tool, args, pageNumber, resolved, datasourceLuid>>

\* Structured tool, lines 108-125: filter validation
QueryValidateFilterValues(i) ==
  /\ tool[i] = "query" /\ pc[i] = "validate"
  /\ \E filterValidationResult \in validateFilterValuesResults(args[i].query) :
       /\ Called(i, [op |-> "validateFilterValues", query |-> args[i].query,
                     response |-> filterValidationResult])
       /\ IF filterValidationResult.isErr
            THEN Return(i, Err(ValidationFailure(filterValidationResult.error)),
                        "ValidateFilters")
            ELSE /\ pc' = [pc EXCEPT ![i] = NextStage(QueryStages, "validate")]
                 /\ UNCHANGED <<outcome, stage>>
  /\ UNCHANGED <<config, listing, tool, args, pageNumber, resolved,
                 datasourceLuid, queryRequest>>

\* Structured tool, lines 127-140: the query itself
QueryQueryDatasource(i) ==
  /\ tool[i] = "query" /\ pc[i] = "query"
  /\ \E result \in QueryDatasourceResults :
       /\ Called(i, [op |-> "queryDatasource", request |-> queryRequest[i][1],
                     response |-> result])
       /\ Return(i, IF result.isErr THEN Err(QueryFailure(result.error)) ELSE result,
                 "Execute")
  /\ UNCHANGED <<config, listing, tool, args, pageNumber, resolved,
                 datasourceLuid, queryRequest>>

\* Natural-language tool, lines 244-280: one turn of the resolver loop, and what
\* follows the loop up to the next await
SimpleListDatasources(i) ==
  /\ tool[i] = "simple" /\ pc[i] = "resolve"
  /\ LET datasourceName == args[i].datasourceName
         target == Target(datasourceName)
         datasources == listDatasources(pageNumber[i]).datasources
         match == bestDatasourceMatch(Nullish(datasources, <<>>), target)
         luid == IF match = None THEN None
                 ELSE IF match[1].luid # None THEN match[1].luid ELSE match[1].id
     IN /\ Called(i, [op |-> "listDatasources", pageSize |-> pageSize,
                      pageNumber |-> pageNumber[i]])
        /\ resolved' = [resolved EXCEPT ![i] = match]
        /\ IF match # None
             THEN IF Falsy(luid)
                    THEN /\ Return(i, Err([type |-> "datasource-not-found",
                                           message |-> NoLuidMessage(datasourceName)]),
                                   "ResolveDataset")
                         /\ UNCHANGED <<pageNumber, datasourceLuid>>
                    ELSE /\ Resolved(i, luid)
                         /\ pc' = [pc EXCEPT ![i] = NextStage(SimpleStages, "resolve")]
                         /\ UNCHANGED <<pageNumber, outcome, stage>>
             ELSE IF \/ EndOfListing(datasources)
                     \/ ~LoopContinues(pageNumber[i] + 1)
                    THEN /\ Return(i, Err([type |-> "datasource-not-found",
                                           message |-> NotMatchedMessage(datasourceName)]),
                                   "ResolveDataset")
                         /\ UNCHANGED <<pageNumber, datasourceLuid>>
                    ELSE /\ pageNumber' = [pageNumber EXCEPT ![i] = @ + 1]
                         /\ UNCHANGED <<pc, datasourceLuid, outcome, stage>>
  /\ UNCHANGED <<config, listing, tool, args, queryRequest>>

\* Natural-language tool, lines 283-293: the access check
SimpleIsDatasourceAllowed(i) ==
  /\ tool[i] = "simple" /\ pc[i] = "access"
  /\ \E isDatasourceAllowedResult \in IsDatasourceAllowedResults :
       /\ Called(i, [op |-> "isDatasourceAllowed",
                     datasourceLuid |-> datasourceLuid[i][1],
                     response |-> isDatasourceAllowedResult])
       /\ IF SimpleNotAllowed(isDatasourceAllowedResult)
            THEN Return(i, Err([type |-> "datasource-not-allowed",
                                message |-> isDatasourceAllowedResult.message]),
                        "ResolveAccess")
            ELSE /\ pc' = [pc EXCEPT ![i] = NextStage(SimpleStages, "access")]
                 /\ UNCHANGED <<outcome, stage>>
  /\ UNCHANGED <<config, listing, tool, args, pageNumber, resolved,
                 datasourceLuid, queryRequest>>

\* Natural-language tool, lines 296-345: the metadata read, then the query and
\* the request are built
SimpleReadMetadata(i) ==
  /\ tool[i] = "simple" /\ pc[i] = "metadata"
  /\ \E md \in ReadMetadataResults :
       /\ Called(i, [op |-> "readMetadata", datasourceLuid |-> datasourceLuid[i][1],
                     response |-> md])
       /\ IF md.isErr
            THEN /\ Return(i, Err(SimpleMetadataFailure(md.error)), "ReadMetadata")
                 /\ UNCHANGED queryRequest
            ELSE LET rowLimit == Nullish(args[i].limit, DefaultRowLimit)
                     firstFieldCaption == extractFirstFieldCaption(md.value)
                     query == buildQueryFromQuestion(args[i].question,
                                                     firstFieldCaption, rowLimit)
                 IN /\ queryRequest' =
                         [queryRequest EXCEPT ![i] =
                            Some(QueryRequestOf(datasourceLuid[i][1], query, FALSE))]
                    /\ pc' = [pc EXCEPT ![i] = NextStage(SimpleStages, "metadata")]
                    /\ UNCHANGED <<outcome, stage>>
  /\ UNCHANGED <<config, listing, tool, args, pageNumber, resolved, datasourceLuid>>

\* Natural-language tool, lines 354-373: filter validation
SimpleValidateFilterValues(i) ==
  /\ tool[i] = "simple" /\ pc[i] = "validate"
  /\ \E filterValidationResult \in
         validateFilterValuesResults(queryRequest[i][1].query) :
       /\ Called(i, [op |-> "validateFilterValues",
                     query |-> queryRequest[i][1].query,
                     response |-> filterValidationResult])
       /\ IF filterValidationResult.isErr
            THEN Return(i, Err(SimpleValidationFailure(filterValidationResult.error)),
                        "ValidateFilters")
            ELSE /\ pc' = [pc EXCEPT ![i] = NextStage(SimpleStages, "validate")]
                 /\ UNCHANGED <<outcome, stage>>
  /\ UNCHANGED <<config, listing, tool, args, pageNumber, resolved,
                 datasourceLuid, queryRequest>>

\* Natural-language tool, lines 375-392: the query itself
SimpleQueryDatasource(i) ==
  /\ tool[i] = "simple" /\ pc[i] = "query"
  /\ \E result \in QueryDatasourceResults :
       /\ Called(i, [op |-> "queryDatasource", request |-> queryRequest[i][1],
                     response |-> result])
       /\ Return(i, IF result.isErr THEN Err(SimpleQueryFailure(result.error))
                    ELSE result,
                 "Execute")
  /\ UNCHANGED <<config, listing, tool, args, pageNumber, resolved,
                 datasourceLuid, queryRequest>>

-----------------------------------------------------------------------------
(* Specifications *)

Configs == [disableQueryDatasourceFilterValidation : BOOLEAN]

\* The state when the calls `arrived` (one per invocation slot, or NoCall) have
\* entered their callbacks, against one of `listings`.
InitWith(configs, listings, arrivals) ==
  /\ config \in configs
  /\ listing \in listings
  /\ \E arrived \in arrivals :
       /\ tool = [i \in Invocations |-> arrived[i].tool]
       /\ args = [i \in Invocations |-> arrived[i].args]
       /\ pc = [i \in Invocations |->
                  CASE arrived[i].tool = "query" -> QueryStages[1]
                    [] arrived[i].tool = "simple" -> SimpleStages[1]
                    [] arrived[i].tool = "list" -> "paginate"
                    [] OTHER -> "idle"]
       /\ datasourceLuid = [i \in Invocations |->
                              IF arrived[i].tool = "query"
                                THEN Some(arrived[i].args.datasourceLuid) ELSE None]
  /\ pageNumber = [i \in Invocations |-> 1]
  /\ resolved = [i \in Invocations |-> None]
  /\ queryRequest = [i \in Invocations |-> None]
  /\ calls = [i \in Invocations |-> <<>>]
  /\ outcome = [i \in Invocations |-> None]
  /\ stage = [i \in Invocations |-> "none"]

\* one call, in the first slot
SingleCall(callSet) ==
  {[i \in Invocations |-> IF i = 1 THEN c ELSE NoCall] : c \in callSet}

\* One invocation of either tool, with any arguments
Init ==
  InitWith(Configs,
           ListingsOver(MaxLead, PagesOver(SmallPool, 1), LastPagesOver({dsSales})),
           SingleCall(ToolCalls))

Next ==
  \E i \in Invocations :
    \/ QueryIsDatasourceAllowed(i)
    \/ QueryValidateFilterValues(i)
    \/ QueryQueryDatasource(i)
    \/ SimpleListDatasources(i)
    \/ SimpleIsDatasourceAllowed(i)
    \/ SimpleReadMetadata(i)
    \/ SimpleValidateFilterValues(i)
    \/ SimpleQueryDatasource(i)

Spec == Init /\ [][Next]_vars

\* One invocation of either tool whose every remote call returns: a callback
\* suspended at an await is resumed
ReturningCalls ==
  {c \in ToolCalls :
     \/ c.tool = "query" /\ c.args.datasourceLuid = "luid-emea"
     \/ c.tool = "simple" /\ c.args.question = "how many orders?"
          /\ c.args.datasourceName \in {<<" ", "S", "A">>, <<"e">>}}

InitReturning ==
  InitWith(Configs,
           ListingsOver(MaxLead, {FillerPage}, LastPagesOver({dsSales})),
           SingleCall(ReturningCalls))

SpecReturning == InitReturning /\ [][Next]_vars /\ WF_vars(Next)

\* Dataset resolution alone, over every listing of the bounds
ResolveCalls ==
  {[tool |-> "simple",
    args |-> [datasourceName |-> n, question |-> "how many orders?", limit |-> None]]
     : n \in DatasourceNames}

InitResolve ==
  InitWith({[disableQueryDatasourceFilterValidation |-> FALSE]},
           ListingsOver(MaxLead, PagesOver(CandidatePool, MaxItems),
                        LastPagesOver(SmallPool)),
           SingleCall(ResolveCalls))

NextResolve == \E i \in Invocations : SimpleListDatasources(i)

SpecResolve == InitResolve /\ [][NextResolve]_vars

\* Every slot holds an invocation, all against one listing
ConcurrentCalls ==
  {[tool |-> "query",
    args |-> [datasourceLuid |-> "luid-emea", query |-> q]]
     : q \in {q \in StructuredQueries : Len(ValidatedFilters(q)) = 2}}
    \cup {[tool |-> "simple",
           args |-> [datasourceName |-> n, question |-> "how many orders?",
                     limit |-> None]]
            : n \in {<<"e">>, <<"E", "E", " ">>}}

InitConcurrent ==
  InitWith(Configs,
           ListingsOver(0, {[absent |-> FALSE, items |-> <<dsSalesEmea>>, pad |-> 0]},
                        LastPagesOver({})),
           [Invocations -> ConcurrentCalls])

SpecConcurrent == InitConcurrent /\ [][Next]_vars

-----------------------------------------------------------------------------
(* The list tool, src/src/tools/listDatasources/listDatasources.ts *)

\* Number.MAX_SAFE_INTEGER is 2^53 - 1; it stands here as the largest integer
\* the model's arithmetic holds, above every limit of the model
MAX_SAFE_INTEGER == 2147483647

\* Math.min(a, b)
MathMin(a, b) == IF a <= b THEN a ELSE b

\* the requested limit is handed to the paginator as it is
PageConfigLimitUnclamped(maxResultLimit, limit) == limit

\* pageConfig.limit: config.maxResultLimit
\*   ? Math.min(config.maxResultLimit, limit ?? Number.MAX_SAFE_INTEGER) : limit
\* (a number is truthy unless it is 0)
PageConfigLimit(maxResultLimit, limit) ==
  IF maxResultLimit # None /\ maxResultLimit[1] # 0
    THEN Some(MathMin(maxResultLimit[1], Nullish(limit, MAX_SAFE_INTEGER)))
    ELSE limit

\* a restriction applies only when its set holds an identifier
PresentAndNotEmpty(ids) == ids # None /\ ids[1] # {}

\* if (projectIds), if (datasourceIds): a Set is truthy, null is not
Present(ids) == ids # None

\* the project restriction is not applied
filterByProjectIgnored(datasources, projectIds) == datasources

\* datasources.filter((datasource) => projectIds.has(datasource.project.id))
filterByProject(datasources, projectIds) ==
  LET has(datasource) == datasource.project.id \in projectIds
  IN SelectSeq(datasources, has)

\* datasources.filter((datasource) => datasourceIds.has(datasource.id))
filterByDatasource(datasources, datasourceIds) ==
  LET has(datasource) == datasource.id \in datasourceIds
  IN SelectSeq(datasources, has)

\* the message of the result for an empty input list (lines 97-98)
NoDatasourcesMessage ==
  <<"No datasources were found.",
    "Either none exist or you do not have permission to view them.">>

\* policy-caused emptiness is reported in the words of an empty listing
FilteredOutMessageGeneric == NoDatasourcesMessage

\* the message of the result when every datasource was filtered out
\* (lines 114-117)
FilteredOutMessage ==
  <<"The set of allowed data sources that can be queried is limited by the server configuration.",
    "While data sources were found, they were all filtered out by the server configuration.">>

\* export function constrainDatasources({ datasources, boundedContext })
constrainDatasources(datasources, boundedContext) ==
  IF Len(datasources) = 0
    THEN [type |-> "empty", message |-> NoDatasourcesMessage]
    ELSE LET projectIds == boundedContext.projectIds
             datasourceIds == boundedContext.datasourceIds
             byProject == IF Present(projectIds)
                            THEN filterByProject(datasources, projectIds[1])
                            ELSE datasources
             byDatasource == IF Present(datasourceIds)
                               THEN filterByDatasource(byProject, datasourceIds[1])
                               ELSE byProject
         IN IF Len(byDatasource) = 0
              THEN [type |-> "empty", message |-> FilteredOutMessage]
              ELSE [type |-> "success", result |-> byDatasource]

\* the datasources of the site, as the list tool reads them
ListedDatasources ==
  {[id |-> "d1", project |-> [id |-> "p1"]],
   [id |-> "d2", project |-> [id |-> "p1"]],
   [id |-> "d3", project |-> [id |-> "p2"]]}

\* what paginate() answers: the datasources of the pages it fetched
PaginateResults == SeqsUpTo(ListedDatasources, MaxListed)

\* config.boundedContext: each set is null or a Set of identifiers
BoundedContexts ==
  [projectIds : {None} \cup {Some(S) : S \in SUBSET {"p1", "p2"}},
   datasourceIds : {None} \cup {Some(S) : S \in SUBSET {"d1", "d2", "d3"}}]

\* getConfig(), as the list tool reads it: maxResultLimit is null or a positive
\* number
ListConfigs ==
  [maxResultLimit : {None} \cup {Some(n) : n \in 1..MaxListLimit},
   boundedContext : BoundedContexts]

\* paramsSchema: { filter, pageSize, limit }, the numbers optional and > 0
ListArgs ==
  [filter : {None},
   pageSize : {None, Some(2)},
   limit : {None} \cup {Some(n) : n \in 1..MaxListLimit}]

ListCalls == {[tool |-> "list", args |-> a] : a \in ListArgs}

\* List tool, lines 44-79: the pages are fetched under the effective limit and
\* the datasources are constrained to the bounded context
ListDatasources(i) ==
  /\ tool[i] = "list" /\ pc[i] = "paginate"
  /\ \E datasources \in PaginateResults :
       LET pageConfig == [pageSize |-> args[i].pageSize,
                          limit |-> PageConfigLimit(config.maxResultLimit,
                                                    args[i].limit)]
       IN /\ Called(i, [op |-> "paginate", pageConfig |-> pageConfig,
                        response |-> datasources])
          /\ Return(i, constrainDatasources(datasources, config.boundedContext),
                    "List")
  /\ UNCHANGED <<config, listing, tool, args, pageNumber, resolved,
                 datasourceLuid, queryRequest>>

\* One invocation of the list tool, under any configuration
InitList ==
  InitWith(ListConfigs, {<<AbsentPage>>}, SingleCall(ListCalls))

NextList == \E i \in Invocations : ListDatasources(i)

SpecList == InitList /\ [][NextList]_vars

-----------------------------------------------------------------------------
(* Vocabulary of the properties *)

Structured(i) == tool[i] = "query"
Simple(i) == tool[i] = "simple"
Done(i) == pc[i] = "done"

\* the k-th remote call of invocation i
OpAt(i, k) == calls[i][k].op
HasCalled(i, op) == \E k \in 1..Len(calls[i]) : OpAt(i, k) = op

Failed(i) == outcome[i] # None /\ outcome[i][1].isErr
Succeeded(i) == outcome[i] # None /\ ~outcome[i][1].isErr
ErrorOf(i) == outcome[i][1].error
\* the error carries a `type` discriminant
Tagged(i) == Failed(i) /\ "type" \in DOMAIN ErrorOf(i)
FailedAs(i, type) == Tagged(i) /\ ErrorOf(i).type = type

\* text split at each occurrence of the token sep
RECURSIVE SplitAt(_, _)
SplitAt(text, sep) ==
  IF \E k \in 1..Len(text) : text[k] = sep
    THEN LET k == CHOOSE n \in 1..Len(text) :
                    text[n] = sep /\ \A m \in 1..(n - 1) : text[m] # sep
         IN <<SubSeq(text, 1, k - 1)>> \o SplitAt(SubSeq(text, k + 1, Len(text)), sep)
    ELSE <<text>>

\* datasource d matches the search term: its lower-cased name holds the term
\* (an exact match is one of these)
Matches(d, term) == includes(toLowerCase(Nullish(d.name, <<>>)), term)
ExactlyMatches(d, term) == toLowerCase(Nullish(d.name, <<>>)) = term

\* the datasources of listing page n, as the resolver reads them
PageItems(n) == Nullish(listDatasources(n).datasources, <<>>)

-----------------------------------------------------------------------------
(* C1 *)

AccessRejected(i) ==
  /\ Len(calls[i]) >= 1
  /\ OpAt(i, 1) = "isDatasourceAllowed"
  /\ ~calls[i][1].response.allowed

\* C1: in the structured-query tool the access check is the first call and is
\* made once; the validator and queryDatasource are called only after it
\* allowed the datasource, the validator before queryDatasource; when it rejects,
\* the invocation ends with datasource-not-allowed and no other call is made.
C1_AccessThenValidateThenExecute ==
  \A i \in Invocations :
    Structured(i) =>
      /\ \A k \in 1..Len(calls[i]) :
           /\ OpAt(i, k) = "isDatasourceAllowed" => k = 1
           /\ OpAt(i, k) \in {"validateFilterValues", "queryDatasource"} =>
                /\ k > 1
                /\ OpAt(i, 1) = "isDatasourceAllowed"
                /\ calls[i][1].response.allowed
           /\ OpAt(i, k) = "validateFilterValues" =>
                \A j \in 1..k : OpAt(i, j) # "queryDatasource"
      /\ AccessRejected(i) =>
           /\ Done(i)
           /\ FailedAs(i, "datasource-not-allowed")
           /\ Len(calls[i]) = 1

C1_Witness ==
  \E i \in Invocations :
    Structured(i) /\ AccessRejected(i) /\ Done(i)
      /\ "filters" \in DOMAIN args[i].query

-----------------------------------------------------------------------------
(* C2 *)

\* the findings the validator returned to invocation i, if it returned any
FindingsOf(i) ==
  LET k == CHOOSE n \in 1..Len(calls[i]) : OpAt(i, n) = "validateFilterValues"
  IN calls[i][k].response.error

ValidatorFound(i) ==
  \E k \in 1..Len(calls[i]) :
    OpAt(i, k) = "validateFilterValues" /\ calls[i][k].response.isErr

\* C2: in the structured-query tool, once the validator has returned findings,
\* queryDatasource has not been and is never called, and the outcome is
\* filter-validation with a message that, split at ', ', is the messages of all
\* the findings in their order.
C2_FindingsRejectWholeQuery ==
  \A i \in Invocations :
    (Structured(i) /\ ValidatorFound(i)) =>
      /\ Done(i)
      /\ ~HasCalled(i, "queryDatasource")
      /\ FailedAs(i, "filter-validation")
      /\ SplitAt(ErrorOf(i).message, ", ")
           = [k \in 1..Len(FindingsOf(i)) |-> FindingsOf(i)[k].message]

C2_Witness ==
  \E i \in Invocations :
    /\ Structured(i) /\ ValidatorFound(i) /\ Done(i)
    /\ Len(FindingsOf(i)) = 2
    /\ FindingsOf(i)[1].field = "Region" /\ FindingsOf(i)[2].field = "Category"

-----------------------------------------------------------------------------
(* C3 *)

FeatureDisabledSignalled(i) ==
  \E k \in 1..Len(calls[i]) :
    /\ OpAt(i, k) = "queryDatasource"
    /\ calls[i][k].response.isErr
    /\ calls[i][k].response.error.jsType = "string"
    /\ calls[i][k].response.error.value = "feature-disabled"

\* C3: in the structured-query tool, whenever queryDatasource answered
\* 'feature-disabled', the outcome is the feature-disabled error, for every query.
C3_FeatureDisabledWhateverTheQuery ==
  \A i \in Invocations :
    (Structured(i) /\ FeatureDisabledSignalled(i)) =>
      /\ Done(i)
      /\ outcome[i] = Some(Err([type |-> "feature-disabled"]))

C3_Witness ==
  \E i \in Invocations :
    /\ Structured(i) /\ FeatureDisabledSignalled(i)
    /\ FailedAs(i, "feature-disabled")
    /\ "limit" \in DOMAIN args[i].query
    /\ HasCalled(i, "validateFilterValues")

-----------------------------------------------------------------------------
(* C4 *)

\* the pages invocation i has read
ScannedPages(i) ==
  {calls[i][k].pageNumber : k \in {n \in 1..Len(calls[i]) : OpAt(i, n) = "listDatasources"}}

\* some datasource on a page invocation i has read matches its search term
MatchScanned(i) ==
  \E n \in ScannedPages(i) :
    \E k \in 1..Len(PageItems(n)) :
      Matches(PageItems(n)[k], toLowerCase(trim(args[i].datasourceName)))

ResolutionOver(i) == Simple(i) /\ pc[i] # "resolve"

\* C4: in the natural-language tool, when resolution is over and no datasource
\* on any page it read matches, the invocation has ended with
\* datasource-not-found, the message holds the name as supplied, and the only
\* calls made are listDatasources calls.
C4_NoMatchIsNotFound ==
  \A i \in Invocations :
    ResolutionOver(i) =>
      \/ /\ Done(i)
         /\ FailedAs(i, "datasource-not-found")
         /\ includes(ErrorOf(i).message, args[i].datasourceName)
         /\ \A k \in 1..Len(calls[i]) : OpAt(i, k) = "listDatasources"
      \/ MatchScanned(i)

C4_Witness ==
  \E i \in Invocations :
    /\ ResolutionOver(i) /\ ~MatchScanned(i)
    /\ FailedAs(i, "datasource-not-found")
    /\ Cardinality(ScannedPages(i)) = MaxPageNumber
    /\ toLowerCase(trim(args[i].datasourceName)) # args[i].datasourceName

-----------------------------------------------------------------------------
(* C5 *)

SearchTerm(i) == toLowerCase(trim(args[i].datasourceName))

\* page n is one the scan may reach: it is within the page-attempt bound and
\* every page before it came back with at least pageSize datasources
WithinScanLimits(n) ==
  /\ n <= MaxPageNumber
  /\ \A m \in 1..(n - 1) :
       /\ listDatasources(m).datasources # None
       /\ Len(PageItems(m)) >= pageSize

ExactMatchWithinLimits(i) ==
  \E n \in 1..MaxPageNumber :
    /\ WithinScanLimits(n)
    /\ \E k \in 1..Len(PageItems(n)) : ExactlyMatches(PageItems(n)[k], SearchTerm(i))

\* C5: when resolution is over and a datasource whose lower-cased name equals
\* the search term lies on a page the scan may reach, the datasource resolved
\* is an exact match.
C5_ExactMatchWinsAcrossPages ==
  \A i \in Invocations :
    (ResolutionOver(i) /\ ExactMatchWithinLimits(i)) =>
      /\ resolved[i] # None
      /\ ExactlyMatches(resolved[i][1], SearchTerm(i))

-----------------------------------------------------------------------------
(* C6 *)

\* the page the resolver read last
LastPage(i) == PageItems(calls[i][Len(calls[i])].pageNumber)

\* C6: after each turn of the resolver loop, the match taken from the page just
\* read is a datasource of the page that equals the search term when the page
\* has one; otherwise the first datasource of the page, in listing order,
\* whose name holds the term; otherwise none.
C6_BestMatchOfAPage ==
  \A i \in Invocations :
    (Simple(i) /\ Len(calls[i]) >= 1 /\ OpAt(i, Len(calls[i])) = "listDatasources") =>
      LET page == LastPage(i)
          term == SearchTerm(i)
          exacts == {k \in 1..Len(page) : ExactlyMatches(page[k], term)}
          holders == {k \in 1..Len(page) : Matches(page[k], term)}
      IN IF exacts # {}
           THEN /\ resolved[i] # None
                /\ \E k \in exacts : page[k] = resolved[i][1]
         ELSE IF holders # {}
           THEN /\ resolved[i] # None
                /\ \E k \in holders :
                     /\ page[k] = resolved[i][1]
                     /\ \A j \in holders : k <= j
         ELSE resolved[i] = None

C6_Witness ==
  \E i \in Invocations :
    /\ Simple(i) /\ Len(calls[i]) >= 1
    /\ Len(LastPage(i)) >= 2
    /\ Matches(LastPage(i)[1], SearchTerm(i))
    /\ ~ExactlyMatches(LastPage(i)[1], SearchTerm(i))
    /\ ExactlyMatches(LastPage(i)[2], SearchTerm(i))
    /\ resolved[i] = Some(LastPage(i)[2])

-----------------------------------------------------------------------------
(* C7 *)

\* C7 as stated: in the natural-language tool every readMetadata call comes
\* before every isDatasourceAllowed call.
C7_MetadataBeforeAccess ==
  \A i \in Invocations :
    Simple(i) =>
      \A j, k \in 1..Len(calls[i]) :
        (OpAt(i, j) = "readMetadata" /\ OpAt(i, k) = "isDatasourceAllowed") => j < k

StageRank(op) ==
  CASE op = "listDatasources" -> 1
    [] op = "isDatasourceAllowed" -> 2
    [] op = "readMetadata" -> 3
    [] op = "validateFilterValues" -> 4
    [] op = "queryDatasource" -> 5

\* C7, amended: in the natural-language tool the calls come in the order
\* listDatasources, isDatasourceAllowed, readMetadata, validateFilterValues,
\* queryDatasource, and readMetadata is called right after an access check that
\* allowed the datasource.
C7_AccessBeforeMetadata ==
  \A i \in Invocations :
    Simple(i) =>
      /\ \A j, k \in 1..Len(calls[i]) :
           j < k =>
             \/ StageRank(OpAt(i, j)) < StageRank(OpAt(i, k))
             \/ OpAt(i, j) = "listDatasources" /\ OpAt(i, k) = "listDatasources"
      /\ \A k \in 1..Len(calls[i]) :
           OpAt(i, k) = "readMetadata" =>
             /\ k > 1
             /\ OpAt(i, k - 1) = "isDatasourceAllowed"
             /\ calls[i][k - 1].response.allowed

C7_Witness ==
  \E i \in Invocations :
    /\ Simple(i)
    /\ HasCalled(i, "isDatasourceAllowed")
    /\ HasCalled(i, "readMetadata")
    /\ HasCalled(i, "queryDatasource")

-----------------------------------------------------------------------------
(* C8 *)

SameTag(i, j) ==
  /\ tool[i] = tool[j]
  /\ Tagged(i) /\ Tagged(j)
  /\ ErrorOf(i).type = ErrorOf(j).type

-----------------------------------------------------------------------------
(* C9 *)

Taxonomy ==
  {"feature-disabled", "datasource-not-allowed", "filter-validation", "tableau-error"}

\* C9: every error the structured-query tool's callback returns carries a type
\* of the taxonomy.
C9_ErrorsCarryATaxonomyType ==
  \A i \in Invocations :
    (Structured(i) /\ Failed(i)) =>
      /\ "type" \in DOMAIN ErrorOf(i)
      /\ ErrorOf(i).type \in Taxonomy

-----------------------------------------------------------------------------
(* C10 *)

\* C10: in both tools, once readMetadata or queryDatasource has failed with an
\* error payload of the remote service, the outcome is tableau-error carrying
\* that payload's code and message.
C10_RemoteErrorPassedThrough ==
  \A i \in Invocations :
    \A k \in 1..Len(calls[i]) :
      (/\ OpAt(i, k) \in {"readMetadata", "queryDatasource"}
       /\ calls[i][k].response.isErr
       /\ calls[i][k].response.error.jsType = "object")
        => /\ Done(i)
           /\ FailedAs(i, "tableau-error")
           /\ ErrorOf(i).error.errorCode = calls[i][k].response.error.errorCode
           /\ ErrorOf(i).error.message = calls[i][k].response.error.message

-----------------------------------------------------------------------------
(* C11 *)

Listing(i) == tool[i] = "list"
\* the list constrainDatasources was given, and what it returned
Listed(i) == calls[i][1].response
Constrained(i) == outcome[i][1]

\* isResourceAllowed: (no project restriction or the project is allowed) and
\* (no datasource restriction or the datasource is allowed)
Allowed(d, boundedContext) ==
  /\ boundedContext.projectIds = None \/ d.project.id \in boundedContext.projectIds[1]
  /\ boundedContext.datasourceIds = None \/ d.id \in boundedContext.datasourceIds[1]

EmptyAllowedSet(boundedContext) ==
  \/ boundedContext.projectIds = Some({})
  \/ boundedContext.datasourceIds = Some({})

\* C11: under a bounded context whose allowed-project set, or allowed-datasource
\* set, is present but empty, constrainDatasources never succeeds, whatever the
\* input list: its result is of type 'empty' and carries no datasource.
C11_EmptySetExcludesEverything ==
  \A i \in Invocations :
    (Listing(i) /\ Done(i) /\ EmptyAllowedSet(config.boundedContext)) =>
      /\ Constrained(i).type = "empty"
      /\ "result" \notin DOMAIN Constrained(i)

C11_Witness ==
  \E i \in Invocations :
    /\ Listing(i) /\ Done(i)
    /\ config.boundedContext.projectIds = Some({})
    /\ config.boundedContext.datasourceIds = None
    /\ Len(Listed(i)) >= 2

-----------------------------------------------------------------------------
(* C12 *)

\* the gate narrows a non-empty input list to nothing
NarrowedToNothing(i) ==
  /\ Listed(i) # <<>>
  /\ \A k \in 1..Len(Listed(i)) : ~Allowed(Listed(i)[k], config.boundedContext)

\* what constrainDatasources returns for an empty input list
NoResults == constrainDatasources(<<>>, config.boundedContext)

-----------------------------------------------------------------------------
(* C13 *)

\* the positions of the input list whose datasource the predicate lets through
AllowedPositions(i) ==
  {k \in 1..Len(Listed(i)) : Allowed(Listed(i)[k], config.boundedContext)}

\* the n-th of them, in the order of the input list
NthAllowed(i, n) ==
  CHOOSE k \in AllowedPositions(i) :
    Cardinality({m \in AllowedPositions(i) : m <= k}) = n

\* C13: constrainDatasources succeeds exactly when some datasource of the input
\* satisfies (projectIds absent or d.project.id in projectIds) and
\* (datasourceIds absent or d.id in datasourceIds), and its result is then the
\* datasources satisfying it, each as often and in the order the input has them.
C13_ResultIsTheAllowedSubsequence ==
  \A i \in Invocations :
    (Listing(i) /\ Done(i)) =>
      /\ Constrained(i).type = "success" <=> AllowedPositions(i) # {}
      /\ Constrained(i).type = "success" =>
           /\ Len(Constrained(i).result) = Cardinality(AllowedPositions(i))
           /\ \A n \in 1..Len(Constrained(i).result) :
                Constrained(i).result[n] = Listed(i)[NthAllowed(i, n)]

C13_Witness ==
  \E i \in Invocations :
    /\ Listing(i) /\ Done(i)
    /\ config.boundedContext.projectIds # None
    /\ config.boundedContext.datasourceIds # None
    /\ Constrained(i).type = "success"
    /\ Len(Listed(i)) = 3
    /\ AllowedPositions(i) = {1, 3}
    /\ Listed(i)[1] # Listed(i)[3]

-----------------------------------------------------------------------------
(* C15 *)

\* the limit the list tool handed to the paginator
EffectiveLimit(i) == calls[i][1].pageConfig.limit

\* C15: in the list tool, when a maximum is configured the paginator is handed a
\* limit, which is the smaller of the maximum and the requested limit (the
\* maximum itself when no limit is requested) and so never exceeds the maximum;
\* the requested limit is handed over as it is, absent included, when no maximum
\* is configured.
C15_LimitClampedByMaximum ==
  \A i \in Invocations :
    (Listing(i) /\ Len(calls[i]) >= 1) =>
      LET maxResultLimit == config.maxResultLimit
          limit == args[i].limit
      IN /\ maxResultLimit # None =>
              /\ EffectiveLimit(i) # None
              /\ EffectiveLimit(i)[1] <= maxResultLimit[1]
              /\ limit = None => EffectiveLimit(i)[1] = maxResultLimit[1]
              /\ limit # None =>
                   \/ EffectiveLimit(i) = limit /\ limit[1] <= maxResultLimit[1]
                   \/ EffectiveLimit(i) = maxResultLimit /\ maxResultLimit[1] <= limit[1]
         /\ maxResultLimit = None => EffectiveLimit(i) = limit

C15_Witness ==
  \E i \in Invocations :
    /\ Listing(i) /\ Len(calls[i]) >= 1
    /\ config.maxResultLimit = Some(2)
    /\ args[i].limit = Some(3)
    /\ EffectiveLimit(i) = Some(2)

-----------------------------------------------------------------------------
(* C14 *)

\* the metadata readMetadata answered invocation i with
MetadataOf(i) ==
  LET k == CHOOSE n \in 1..Len(calls[i]) : OpAt(i, n) = "readMetadata"
  IN calls[i][k].response.value

\* the field lists a metadata value reports, under any of its shapes
FieldLists(md) ==
  {o[1].elems : o \in {o \in {md.fields, OptionalFields(md.result),
                                OptionalFields(md.data),
                                OptionalFields(md.metadata)} : o # None}}

\* the caption a metadata field is reported under
CaptionOf(field) ==
  IF field.fieldCaption # None THEN field.fieldCaption
  ELSE IF field.name # None THEN field.name ELSE field.caption

\* C14: the query the natural-language tool builds has no part taken from the
\* question: it is exactly one field, with function COUNT and alias
\* 'Total Records', and a row limit, which is the caller's limit or 20 when
\* the caller gives none; the field's caption is the caption of the first field
\* the metadata reports, or 'Number of Records' when it reports no field.
C14_QueryIsCountOfFirstField ==
  \A i \in Invocations :
    (Simple(i) /\ queryRequest[i] # None) =>
      LET query == queryRequest[i][1].query
          reported == {f \in FieldLists(MetadataOf(i)) : f # <<>>}
      IN /\ DOMAIN query = {"fields", "limit"}
         /\ Len(query.fields) = 1
         /\ query.fields[1].function = "COUNT"
         /\ query.fields[1].fieldAlias = "Total Records"
         /\ query.limit = IF args[i].limit = None THEN 20 ELSE args[i].limit[1]
         /\ IF reported = {}
              THEN query.fields[1].fieldCaption = "Number of Records"
              ELSE \E f \in reported :
                     Some(query.fields[1].fieldCaption) = CaptionOf(f[1])

C14_Witness ==
  \E i \in Invocations :
    /\ Simple(i) /\ queryRequest[i] # None
    /\ args[i].question = "total sales by region"
    /\ args[i].limit = None
    /\ MetadataOf(i).fields # None
    /\ Len(MetadataOf(i).fields[1].elems) = 2
    /\ queryRequest[i][1].query.fields[1].fieldCaption = "Region"

-----------------------------------------------------------------------------
(* C16 *)

\* everything invocation i holds
Local(i) ==
  <<tool[i], args[i], pc[i], pageNumber[i], resolved[i], datasourceLuid[i],
    queryRequest[i], calls[i], outcome[i], stage[i]>>

\* a remote call without the answer it got
Request(call) == [f \in DOMAIN call \ {"response"} |-> call[f]]

\* invocations i and j got the same answers to their first k calls
SameAnswers(i, j, k) == \A m \in 1..k : calls[i][m] = calls[j][m]

\* a step is taken by one invocation and leaves every other invocation, the
\* configuration and the remote listing as they were
StepOfOneInvocation ==
  /\ UNCHANGED <<config, listing>>
  /\ \A i, j \in Invocations :
       i # j => (Local(i)' = Local(i) \/ Local(j)' = Local(j))

\* what an invocation does is a function of its arguments and of the answers
\* it got: two invocations of one tool with the same arguments make the same
\* next call as long as their answers were the same, and are in the same state,
\* outcome included, after the same calls and answers
DeterminedByOwnAnswers ==
  \A i, j \in Invocations :
    (tool[i] = tool[j] /\ args[i] = args[j]) =>
      /\ \A k \in 1..Len(calls[i]) :
           (k <= Len(calls[j]) /\ SameAnswers(i, j, k - 1)) =>
             Request(calls[i][k]) = Request(calls[j][k])
      /\ calls[i] = calls[j] => Local(i) = Local(j)

\* C16: invocations interleaved at their awaits do not interfere: every step
\* changes the state of one invocation only, and the remote calls and the
\* outcome of an invocation are determined by its own arguments and the
\* answers it got, so they are what they are when it runs alone against the
\* same answers.
C16_InvocationsDoNotInterfere ==
  [][StepOfOneInvocation]_vars /\ []DeterminedByOwnAnswers

\* two invocations of the natural-language tool with the same arguments are
\* both in flight, one an await ahead of the other
C16_Witness ==
  \E i, j \in Invocations :
    /\ i # j /\ Simple(i) /\ Simple(j) /\ args[i] = args[j]
    /\ ~Done(i) /\ ~Done(j)
    /\ Len(calls[i]) = 3 /\ Len(calls[j]) = 2
    /\ SameAnswers(i, j, 2)

-----------------------------------------------------------------------------
(* C17 *)

ListCallAt(i, k) == OpAt(i, k) = "listDatasources"

\* C17: the listDatasources requests of an invocation of the natural-language
\* tool are its first calls, the k-th of them asks for page k with page size
\* 100, and there are at most 5 of them: the page numbers are 1, 2, ... in
\* increasing order, none twice.
C17_AtMostFivePagesInOrder ==
  \A i \in Invocations :
    \A k \in 1..Len(calls[i]) :
      ListCallAt(i, k) =>
        /\ Simple(i)
        /\ k <= 5
        /\ calls[i][k].pageNumber = k
        /\ calls[i][k].pageSize = 100

\* the fifth page was read, was full and held no match: only the bound ended
\* the scan
C17_Witness ==
  \E i \in Invocations :
    /\ Simple(i) /\ Done(i)
    /\ Len(calls[i]) = 5 /\ ListCallAt(i, 5)
    /\ Len(PageItems(5)) = 100
    /\ Len(listing) > 5
    /\ ~MatchScanned(i)

-----------------------------------------------------------------------------
(* C18 *)

\* page n came back with fewer items than asked for, or with no list, and
\* none of its items matches the search term of invocation i
ShortPageWithoutMatch(i, n) ==
  /\ listDatasources(n).datasources = None \/ Len(PageItems(n)) < 100
  /\ \A k \in 1..Len(PageItems(n)) : ~Matches(PageItems(n)[k], SearchTerm(i))

\* C18: once a listing page has come back short, or without a list, and without
\* a match, that request is the last call of the invocation, which has ended
\* with datasource-not-found.
C18_ShortPageEndsTheScan ==
  \A i \in Invocations :
    \A k \in 1..Len(calls[i]) :
      (ListCallAt(i, k) /\ ShortPageWithoutMatch(i, calls[i][k].pageNumber)) =>
        /\ Len(calls[i]) = k
        /\ Done(i)
        /\ FailedAs(i, "datasource-not-found")

\* the scan ended on a short second page although the listing goes on with a
\* page that holds a match
C18_Witness ==
  \E i \in Invocations :
    /\ Simple(i) /\ Done(i) /\ Len(calls[i]) = 2
    /\ ShortPageWithoutMatch(i, 2)
    /\ Len(PageItems(2)) = 99
    /\ Len(listing) >= 3
    /\ \E k \in 1..Len(PageItems(3)) : Matches(PageItems(3)[k], SearchTerm(i))

-----------------------------------------------------------------------------
(* C19 *)

\* the k-th call of invocation i was answered with an error or a rejection
AnsweredWithError(i, k) ==
  /\ "response" \in DOMAIN calls[i][k]
  /\ IF OpAt(i, k) = "isDatasourceAllowed"
       THEN ~calls[i][k].response.allowed
       ELSE calls[i][k].response.isErr

\* C19: in an invocation of either tool the access check, readMetadata, the
\* filter validation and queryDatasource are each called at most once, and a
\* call answered with an error or a rejection is the last call of the
\* invocation, which has ended with an error.
C19_NoStageRetried ==
  \A i \in Invocations :
    (Structured(i) \/ Simple(i)) =>
      /\ \A op \in {"isDatasourceAllowed", "readMetadata",
                     "validateFilterValues", "queryDatasource"} :
           Cardinality({k \in 1..Len(calls[i]) : OpAt(i, k) = op}) <= 1
      /\ \A k \in 1..Len(calls[i]) :
           AnsweredWithError(i, k) =>
             /\ k = Len(calls[i])
             /\ Done(i)
             /\ Failed(i)

\* the natural-language tool's metadata read failed after two calls went well
C19_Witness ==
  \E i \in Invocations :
    /\ Simple(i) /\ Done(i)
    /\ Len(calls[i]) >= 3
    /\ OpAt(i, Len(calls[i])) = "readMetadata"
    /\ AnsweredWithError(i, Len(calls[i]))

-----------------------------------------------------------------------------
(* C20 *)

OptedOut == config.disableQueryDatasourceFilterValidation

\* the stage before the validation let invocation i through: the access check
\* of the structured tool, the metadata read of the natural-language tool
PassedToValidation(i) ==
  \E k \in 1..Len(calls[i]) :
    \/ Structured(i) /\ OpAt(i, k) = "isDatasourceAllowed"
         /\ calls[i][k].response.allowed
    \/ Simple(i) /\ OpAt(i, k) = "readMetadata" /\ ~calls[i][k].response.isErr

\* the outcome reports validation findings, in either tool's way
ValidationRejected(i) ==
  \/ FailedAs(i, "filter-validation")
  \/ /\ FailedAs(i, "tableau-error")
     /\ "errorCode" \in DOMAIN ErrorOf(i).error
     /\ ErrorOf(i).error.errorCode = "validation"

\* C20: when disableQueryDatasourceFilterValidation is set, no invocation of
\* either tool calls the validator or ends with a validation rejection, and an
\* invocation that passed the access check (the metadata read, in the
\* natural-language tool) is at the queryDatasource call or has made it.
C20_OptOutSkipsValidation ==
  OptedOut =>
    \A i \in Invocations :
      /\ ~HasCalled(i, "validateFilterValues")
      /\ ~ValidationRejected(i)
      /\ PassedToValidation(i) =>
           (pc[i] = "query" \/ HasCalled(i, "queryDatasource"))

C20_Witness ==
  \E i \in Invocations :
    /\ OptedOut /\ Structured(i)
    /\ "filters" \in DOMAIN args[i].query
    /\ Len(calls[i]) = 2
    /\ OpAt(i, 2) = "queryDatasource"

-----------------------------------------------------------------------------
(* C21 *)

\* the outcome of invocation i is one Result: a success with a payload and no
\* error, or an error and no payload
OneResult(i) ==
  IF outcome[i][1].isErr
    THEN DOMAIN outcome[i][1] = {"isErr", "error"}
    ELSE DOMAIN outcome[i][1] = {"isErr", "value"}

\* the last call of invocation i is a queryDatasource call that returned the
\* payload the invocation succeeded with
QueryReturnedPayload(i) ==
  /\ Len(calls[i]) >= 1
  /\ OpAt(i, Len(calls[i])) = "queryDatasource"
  /\ ~calls[i][Len(calls[i])].response.isErr
  /\ calls[i][Len(calls[i])].response.value = outcome[i][1].value

TerminalOutcome ==
  \A i \in Invocations :
    /\ Done(i) <=> outcome[i] # None
    /\ outcome[i] # None => (Len(outcome[i]) = 1 /\ OneResult(i))
    /\ Succeeded(i) => QueryReturnedPayload(i)

OutcomeIsFinal ==
  \A i \in Invocations :
    outcome[i] # None => (outcome[i]' = outcome[i] /\ calls[i]' = calls[i])

\* C21: when every remote call returns, every invocation of either tool
\* eventually ends; an invocation that has ended has one outcome, a success with
\* a payload or an error and never both, which does not change afterwards; and
\* it is a success only when the last call was queryDatasource and returned the
\* payload.
C21_EveryInvocationEndsWithOneOutcome ==
  /\ []TerminalOutcome
  /\ [][OutcomeIsFinal]_vars
  /\ \A i \in Invocations : (Structured(i) \/ Simple(i)) ~> Done(i)

\* the natural-language tool succeeded after a scan of several pages
C21_Witness ==
  \E i \in Invocations :
    /\ Simple(i) /\ Done(i) /\ Succeeded(i)
    /\ QueryReturnedPayload(i)
    /\ Cardinality(ScannedPages(i)) >= 3
    /\ HasCalled(i, "validateFilterValues")

====
